---- MODULE Spec2Model ----
(***************************************************************************)
(* A model of mcp-go-wrapper: the Wrapper that derives a tool schema from  *)
(* struct tags (buildSchema), registers tools with the MCP server          *)
(* (Register, RegisterCobra) and runs the bind -> validate -> handler ->    *)
(* encode pipeline of createHandler on every tool call.                    *)
(*                                                                         *)
(* Go values are encoded homogeneously:                                    *)
(*   error           <<>> is nil, <<m>> is an error whose Error() is m     *)
(*   *T (optional)   <<>> is nil, <<v>> points to v                        *)
(*   reflect.Type    the type's name as a string                           *)
(*   scalar value    [k |-> kind, s |-> text, i |-> integer]               *)
(***************************************************************************)
EXTENDS Integers, Sequences, FiniteSets, TLC

NilErr == <<>>
Err(m) == <<m>>

\* The element of a one-element set.  Operators below bind their arguments
\* with it, { body : x \in {argument} }, so that an argument is evaluated
\* once, before the body, as Go evaluates the arguments of a call.
Value(S) == CHOOSE v \in S : TRUE

(***************************************************************************)
(* strings package                                                         *)
(***************************************************************************)
At(s, i) == SubSeq(s, i, i)

From(s, i) == SubSeq(s, i, Len(s))

HasPrefix(s, p) == Len(s) >= Len(p) /\ SubSeq(s, 1, Len(p)) = p

TrimPrefix(s, p) == IF HasPrefix(s, p) THEN From(s, Len(p) + 1) ELSE s

\* positions at which sep occurs in s
Occurrences(s, sep) ==
  {i \in 1..(Len(s) - Len(sep) + 1) : SubSeq(s, i, i + Len(sep) - 1) = sep}

\* first position where sep occurs in s, 0 if there is none
Index(str, sepr) ==
  Value({ IF hits = {} THEN 0 ELSE CHOOSE i \in hits : \A j \in hits : i <= j
          : hits \in {Occurrences(str, sepr)} })

Contains(s, sub) == Index(s, sub) # 0

RECURSIVE Split(_, _)
Split(str, sepr) ==
  Value({ IF i = 0 THEN <<s>>
          ELSE <<SubSeq(s, 1, i - 1)>> \o Split(From(s, i + Len(sep)), sep)
          : s \in {str}, sep \in {sepr}, i \in {Index(str, sepr)} })

TrimSpace(str) ==
  Value({ IF solid = {} THEN ""
          ELSE SubSeq(str, CHOOSE i \in solid : \A j \in solid : i <= j,
                           CHOOSE i \in solid : \A j \in solid : i >= j)
          : solid \in {{i \in 1..Len(str) : At(str, i) # " "}} })

TrimLeft(str) ==
  Value({ IF solid = {} THEN ""
          ELSE From(str, CHOOSE i \in solid : \A j \in solid : i <= j)
          : solid \in {{i \in 1..Len(str) : At(str, i) # " "}} })

RECURSIVE Join(_, _)
Join(elements, sepr) ==
  Value({ IF Len(elems) = 0 THEN ""
          ELSE IF Len(elems) = 1 THEN elems[1]
          ELSE elems[1] \o sep \o Join(Tail(elems), sep)
          : elems \in {elements}, sep \in {sepr} })

contains(slice, item) == \E i \in 1..Len(slice) : slice[i] = item

(***************************************************************************)
(* decimal text <-> integers                                               *)
(***************************************************************************)
Digits == <<"0", "1", "2", "3", "4", "5", "6", "7", "8", "9">>

IsDigit(c) == \E d \in 1..10 : Digits[d] = c

DigitVal(c) == (CHOOSE d \in 1..10 : Digits[d] = c) - 1

\* number of leading decimal digits of s
DigitRun(str) ==
  Value({ IF other = {} THEN Len(str)
          ELSE (CHOOSE i \in other : \A j \in other : i <= j) - 1
          : other \in {{i \in 1..Len(str) : ~IsDigit(At(str, i))}} })

RECURSIVE DigitsVal(_)
DigitsVal(str) ==
  Value({ IF Len(s) = 0 THEN 0
          ELSE 10 * DigitsVal(SubSeq(s, 1, Len(s) - 1)) + DigitVal(At(s, Len(s)))
          : s \in {str} })

RECURSIVE Itoa(_)
Itoa(num) ==
  Value({ IF n < 0 THEN "-" \o Itoa(0 - n)
          ELSE IF n < 10 THEN Digits[n + 1]
          ELSE Itoa(n \div 10) \o Digits[(n % 10) + 1]
          : n \in {num} })

\* strconv-style parse of a whole decimal text: [ok, n]
Atoi(str) ==
  Value({ IF Len(body) > 0 /\ DigitRun(body) = Len(body)
          THEN [ok |-> TRUE,
                n |-> IF HasPrefix(str, "-") THEN 0 - DigitsVal(body) ELSE DigitsVal(body)]
          ELSE [ok |-> FALSE, n |-> 0]
          : body \in {IF HasPrefix(str, "-") \/ HasPrefix(str, "+")
                      THEN From(str, 2) ELSE str} })

(***************************************************************************)
(* interface{} values held in schema maps and struct fields                *)
(***************************************************************************)
StrV(s) == [k |-> "string", s |-> s, i |-> 0, e |-> 0, l |-> <<>>]

IntV(i) == [k |-> "int", s |-> "", i |-> i, e |-> 0, l |-> <<>>]

\* the float64 m * 10^e
FloatV(m, e) == [k |-> "float64", s |-> "", i |-> m, e |-> e, l |-> <<>>]

ListV(l) == [k |-> "[]string", s |-> "", i |-> 0, e |-> 0, l |-> l]

(***************************************************************************)
(* reflect: the argument values handed to Register and their types.  An    *)
(* argsType value is identified by its dynamic type; UntypedNil is the nil *)
(* interface, for which reflect.TypeOf returns the nil Type.               *)
(***************************************************************************)
UntypedNil == "<nil>"

NoType == ""

TypeOf(v) == IF v = UntypedNil THEN NoType ELSE v

StructTypes == {"TestArgs", "GreetArgs", "ScenarioArgs", "TagArgs", "LimitArgs"}

IsPtrType(t) == Len(t) > 0 /\ At(t, 1) = "*"

\* reflect.Type.Kind; not defined on the nil Type (the call panics)
Kind(t) ==
  IF IsPtrType(t) THEN "ptr"
  ELSE IF t \in StructTypes THEN "struct"
  ELSE IF t = "[]int" THEN "slice"
  ELSE IF t = "map[string]string" THEN "map"
  ELSE IF t = "bool" THEN "bool"
  ELSE IF t = "float64" THEN "float64"
  ELSE t

Elem(t) == From(t, 2)

PtrTo(t) == "*" \o t

\* the struct definitions of the repository (TestArgs, GreetArgs) and of the
\* library's users, fields in declaration order:
\*   ScenarioArgs  rules on one field, schema constraints on the others
\*   TagArgs       every way a tag can mention "required"
\*   LimitArgs     the value texts of minimum=, maximum=, minLength=, maxLength=
StructFields(t) ==
  IF t = "TestArgs" THEN
    << [name |-> "Name", typ |-> "string", json |-> "name",
        jsonschema |-> "required,description=Test name",
        validate |-> "required,min=3"],
       [name |-> "Age", typ |-> "int", json |-> "age",
        jsonschema |-> "required,minimum=0,maximum=120,description=Test age",
        validate |-> "required,gte=0,lte=120"],
       [name |-> "Email", typ |-> "string", json |-> "email",
        jsonschema |-> "description=Optional email",
        validate |-> "omitempty,email"],
       [name |-> "Category", typ |-> "string", json |-> "category",
        jsonschema |-> "enum=A,enum=B,enum=C,description=Category",
        validate |-> "required,oneof=A B C"] >>
  ELSE IF t = "GreetArgs" THEN
    << [name |-> "Name", typ |-> "string", json |-> "name",
        jsonschema |-> "required,description=Name to greet",
        validate |-> "required,min=1"],
       [name |-> "Format", typ |-> "string", json |-> "format",
        jsonschema |-> "enum=formal,enum=casual,description=Greeting style",
        validate |-> "omitempty,oneof=formal casual"] >>
  ELSE IF t = "ScenarioArgs" THEN
    << [name |-> "Name", typ |-> "string", json |-> "name",
        jsonschema |-> "",
        validate |-> "required,min=3"],
       [name |-> "Age", typ |-> "int", json |-> "age",
        jsonschema |-> "required,minimum=0,maximum=120,description=User age in years",
        validate |-> ""],
       [name |-> "Size", typ |-> "string", json |-> "size",
        jsonschema |-> "enum=small,enum=medium,enum=large",
        validate |-> ""] >>
  ELSE IF t = "TagArgs" THEN
    << [name |-> "A", typ |-> "string", json |-> "a",
        jsonschema |-> "required,required,description=twice",
        validate |-> "required,required_without=B"],
       [name |-> "B", typ |-> "string", json |-> "b,omitempty",
        jsonschema |-> "description=spaced, required ",
        validate |-> ""],
       [name |-> "C", typ |-> "string", json |-> "c",
        jsonschema |-> "description=required",
        validate |-> "omitempty,min=1"],
       [name |-> "D", typ |-> "string", json |-> "d",
        jsonschema |-> "",
        validate |-> "omitempty,required_with=A"],
       [name |-> "E", typ |-> "string", json |-> "e",
        jsonschema |-> "enum=required,required=true",
        validate |-> "min=1"],
       [name |-> "F", typ |-> "string", json |-> "-",
        jsonschema |-> "required",
        validate |-> "required"],
       [name |-> "G", typ |-> "string", json |-> "",
        jsonschema |-> "required",
        validate |-> "required"] >>
  ELSE IF t = "LimitArgs" THEN
    << [name |-> "Low", typ |-> "int", json |-> "low",
        jsonschema |-> "minimum=3.5,maximum=12abc",
        validate |-> ""],
       [name |-> "High", typ |-> "int", json |-> "high",
        jsonschema |-> "minimum=-7,maximum=+5",
        validate |-> ""],
       [name |-> "Text", typ |-> "string", json |-> "text",
        jsonschema |-> "minLength=abc,maxLength=007",
        validate |-> ""],
       [name |-> "Note", typ |-> "string", json |-> "note",
        jsonschema |-> "minLength=,maxLength=50",
        validate |-> ""],
       [name |-> "Frac", typ |-> "float64", json |-> "frac",
        jsonschema |-> "minimum=.5,maximum=-2.25",
        validate |-> ""] >>
  ELSE <<>>

(***************************************************************************)
(* Schema derivation                                                       *)
(***************************************************************************)
inferType(t) ==
  CASE Kind(t) = "string" -> "string"
    [] Kind(t) \in {"int", "int8", "int16", "int32", "int64",
                    "uint", "uint8", "uint16", "uint32", "uint64"} -> "integer"
    [] Kind(t) \in {"float32", "float64"} -> "number"
    [] Kind(t) = "bool" -> "boolean"
    [] Kind(t) \in {"slice", "array"} -> "array"
    [] Kind(t) \in {"map", "struct"} -> "object"
    [] OTHER -> "string"

\* the text after leading blanks and one sign
Unsigned(str) ==
  Value({ IF HasPrefix(t, "-") \/ HasPrefix(t, "+") THEN From(t, 2) ELSE t
          : t \in {TrimLeft(str)} })

Negative(str) == HasPrefix(TrimLeft(str), "-")

\* fmt.Sscanf(s, "%d", &i): leading blanks and one sign are skipped, the
\* longest run of digits is converted, and whatever follows is left unread.
ScanInt(str) ==
  Value({ IF n = 0 THEN [ok |-> FALSE, n |-> 0]
          ELSE [ok |-> TRUE,
                n |-> IF Negative(str) THEN 0 - DigitsVal(SubSeq(body, 1, n))
                      ELSE DigitsVal(SubSeq(body, 1, n))]
          : body \in {Unsigned(str)}, n \in {DigitRun(Unsigned(str))} })

\* fmt.Sscanf(s, "%f", &f) for plain decimal notation: sign, digits, an
\* optional point and digits; the token must hold a digit to convert.
ScanFloat(str) ==
  Value({ Value({ IF n + m = 0 THEN [ok |-> FALSE, m |-> 0, e |-> 0]
                  ELSE Value({ [ok |-> TRUE,
                                m |-> IF Negative(str) THEN 0 - mant ELSE mant,
                                e |-> 0 - m]
                               : mant \in {DigitsVal(SubSeq(body, 1, n)
                                             \o SubSeq(body, n + 2, n + 1 + m))} })
                  : m \in {IF n < Len(body) /\ At(body, n + 1) = "."
                           THEN DigitRun(From(body, n + 2)) ELSE 0} })
          : body \in {Unsigned(str)}, n \in {DigitRun(Unsigned(str))} })

parseNumber(str) ==
  Value({ IF i.ok THEN IntV(i.n)
          ELSE Value({ IF f.ok THEN FloatV(f.m, f.e) ELSE StrV(str)
                       : f \in {ScanFloat(str)} })
          : i \in {ScanInt(str)} })

PropKeys ==
  {"type", "description", "enum", "minimum", "maximum", "minLength", "maxLength"}

\* make(map[string]interface{}): no key is set
EmptyProp == [key \in PropKeys |-> <<>>]

\* one token of the jsonschema tag applied to [prop, required, enum]
SchemaToken(accum, rawPart, fieldName) ==
  Value({ IF part = "required"
          THEN IF ~contains(acc.required, fieldName)
               THEN [acc EXCEPT !.required = Append(@, fieldName)]
               ELSE acc
          ELSE IF HasPrefix(part, "description=")
          THEN [acc EXCEPT !.prop["description"] =
                  <<StrV(TrimPrefix(part, "description="))>>]
          ELSE IF HasPrefix(part, "enum=")
          THEN [acc EXCEPT !.enum = Append(@, TrimPrefix(part, "enum="))]
          ELSE IF HasPrefix(part, "minimum=")
          THEN [acc EXCEPT !.prop["minimum"] =
                  <<parseNumber(TrimPrefix(part, "minimum="))>>]
          ELSE IF HasPrefix(part, "maximum=")
          THEN [acc EXCEPT !.prop["maximum"] =
                  <<parseNumber(TrimPrefix(part, "maximum="))>>]
          ELSE IF HasPrefix(part, "minLength=")
          THEN [acc EXCEPT !.prop["minLength"] =
                  <<parseNumber(TrimPrefix(part, "minLength="))>>]
          ELSE IF HasPrefix(part, "maxLength=")
          THEN [acc EXCEPT !.prop["maxLength"] =
                  <<parseNumber(TrimPrefix(part, "maxLength="))>>]
          ELSE acc
          : acc \in {accum}, part \in {TrimSpace(rawPart)} })

RECURSIVE SchemaTokens(_, _, _)
SchemaTokens(accum, tokens, fieldName) ==
  Value({ IF Len(parts) = 0 THEN acc
          ELSE SchemaTokens(SchemaToken(acc, Head(parts), fieldName),
                            Tail(parts), fieldName)
          : acc \in {accum}, parts \in {tokens} })

\* returns the updated prop map and required list
parseJSONSchemaTag(tag, prop, required, fieldName) ==
  Value({ [prop |-> IF Len(acc.enum) > 0
                    THEN [acc.prop EXCEPT !["enum"] = <<ListV(acc.enum)>>]
                    ELSE acc.prop,
           required |-> acc.required]
          : acc \in {SchemaTokens([prop |-> prop, required |-> required,
                                   enum |-> <<>>],
                                  Split(tag, ","), fieldName)} })

\* properties[jsonName] = prop on a map kept as a list of entries
MapPut(m, key, val) ==
  IF \E i \in 1..Len(m) : m[i].key = key
  THEN [i \in 1..Len(m) |-> IF m[i].key = key THEN [key |-> key, val |-> val] ELSE m[i]]
  ELSE Append(m, [key |-> key, val |-> val])

\* the validation pass appending without looking for the name in the list
SchemaField_NoDedup(accum, field) ==
  IF field.json = "" \/ field.json = "-" THEN accum
  ELSE Value({
         Value({ [properties |-> MapPut(acc.properties, jsonName, parsed.prop),
                  required |->
                    IF field.validate # "" /\ Contains(field.validate, "required")
                    THEN Append(parsed.required, jsonName)
                    ELSE parsed.required]
                 : parsed \in
                     {IF field.jsonschema # ""
                      THEN parseJSONSchemaTag(
                             field.jsonschema,
                             [EmptyProp EXCEPT !["type"] = <<StrV(inferType(field.typ))>>],
                             acc.required, jsonName)
                      ELSE [prop |-> [EmptyProp EXCEPT
                                        !["type"] = <<StrV(inferType(field.typ))>>],
                            required |-> acc.required]} })
         : acc \in {accum}, jsonName \in {Split(field.json, ",")[1]} })

\* the body of buildSchema's loop for one field
SchemaField(accum, field) ==
  IF field.json = "" \/ field.json = "-" THEN accum
  ELSE Value({
         Value({ [properties |-> MapPut(acc.properties, jsonName, parsed.prop),
                  required |->
                    IF /\ field.validate # ""
                       /\ Contains(field.validate, "required")
                       /\ ~contains(parsed.required, jsonName)
                    THEN Append(parsed.required, jsonName)
                    ELSE parsed.required]
                 : parsed \in
                     {IF field.jsonschema # ""
                      THEN parseJSONSchemaTag(
                             field.jsonschema,
                             [EmptyProp EXCEPT !["type"] = <<StrV(inferType(field.typ))>>],
                             acc.required, jsonName)
                      ELSE [prop |-> [EmptyProp EXCEPT
                                        !["type"] = <<StrV(inferType(field.typ))>>],
                            required |-> acc.required]} })
         : acc \in {accum}, jsonName \in {Split(field.json, ",")[1]} })

RECURSIVE SchemaFields(_, _)
SchemaFields(accum, flds) ==
  Value({ IF Len(fields) = 0 THEN acc
          ELSE SchemaFields(SchemaField(acc, Head(fields)), Tail(fields))
          : acc \in {accum}, fields \in {flds} })

\* [panic, err, schema]; schema is <<>> (nil) or <<the ToolInputSchema>>
buildSchema(argsType) ==
  Value({ IF t0 = NoType
          THEN [panic |-> TRUE, err |-> NilErr, schema |-> <<>>]
          ELSE Value({ IF Kind(t) # "struct"
                       THEN [panic |-> FALSE,
                             err |-> Err("argsType must be a struct, got " \o Kind(t)),
                             schema |-> <<>>]
                       ELSE Value({ [panic |-> FALSE, err |-> NilErr,
                                     schema |-> <<[Type |-> "object",
                                                   Properties |-> acc.properties,
                                                   Required |-> acc.required]>>]
                                    : acc \in {SchemaFields([properties |-> <<>>,
                                                             required |-> <<>>],
                                                            StructFields(t))} })
                       : t \in {IF Kind(t0) = "ptr" THEN Elem(t0) ELSE t0} })
          : t0 \in {TypeOf(argsType)} })

(***************************************************************************)
(* Decoding: request.BindArguments(argsValue)                              *)
(*                                                                         *)
(* The arguments of a call are a JSON object, kept as its list of members  *)
(* [key, val] with val a JSON string (StrV) or a JSON integer (IntV), or   *)
(* JSON null.  An argument instance is                                     *)
(*   [typ     the type of the pointer reflect.New returned,                *)
(*    nilElem whether the pointer it points to is nil (typ = **T only),    *)
(*    f       the struct's field values, in declaration order]             *)
(***************************************************************************)
ZeroValue(t) == IF Kind(t) = "string" THEN StrV("") ELSE IntV(0)

\* the struct type an argument type denotes once pointers are followed
RECURSIVE BaseStruct(_)
BaseStruct(typ) ==
  Value({ IF IsPtrType(t) THEN BaseStruct(Elem(t)) ELSE t : t \in {typ} })

\* reflect.New(reflect.TypeOf(argsType)).Interface()
NewArgsValue(argsType) ==
  Value({ [typ |-> PtrTo(t),
           nilElem |-> Kind(t) = "ptr",
           f |-> [i \in 1..Len(fields) |-> ZeroValue(fields[i].typ)]]
          : t \in {TypeOf(argsType)},
            fields \in {StructFields(BaseStruct(TypeOf(argsType)))} })

JSONKind(v) == IF v.k = "string" THEN "string" ELSE "number"

\* the wire name of a field: its json tag up to the first comma
WireName(field) == Split(field.json, ",")[1]

\* index of the struct field a JSON key decodes into, 0 if none
FieldIndex(fields, key) ==
  IF \E i \in 1..Len(fields) : WireName(fields[i]) = key
  THEN CHOOSE i \in 1..Len(fields) : WireName(fields[i]) = key
  ELSE 0

\* one object member stored into the struct; a JSON value of the wrong kind
\* is skipped and reported, the first such report is the one returned
DecodeMember(accum, member, structName) ==
  Value({ IF i = 0 THEN acc
          ELSE IF Kind(fields[i].typ) = member.val.k
          THEN [acc EXCEPT !.f[i] = member.val]
          ELSE IF acc.err # NilErr THEN acc
          ELSE [acc EXCEPT !.err =
                  Err("json: cannot unmarshal " \o JSONKind(member.val)
                      \o " into Go struct field " \o structName \o "."
                      \o member.key \o " of type " \o fields[i].typ)]
          : acc \in {accum}, fields \in {StructFields(structName)},
            i \in {FieldIndex(StructFields(structName), member.key)} })

RECURSIVE DecodeMembers(_, _, _)
DecodeMembers(accum, mems, structName) ==
  Value({ IF Len(members) = 0 THEN acc
          ELSE DecodeMembers(DecodeMember(acc, Head(members), structName),
                             Tail(members), structName)
          : acc \in {accum}, members \in {mems} })

\* [err, value]: value is the argument instance after the call
BindArguments(request, argsValue) ==
  IF request.null THEN [err |-> NilErr, value |-> argsValue]
  ELSE Value({ [err |-> acc.err,
                value |-> [argsValue EXCEPT !.f = acc.f, !.nilElem = FALSE]]
               : acc \in {DecodeMembers([err |-> NilErr, f |-> argsValue.f],
                                        request.members,
                                        BaseStruct(argsValue.typ))} })

(***************************************************************************)
(* Validation: validator.Validate.Struct on the decoded instance           *)
(***************************************************************************)
\* "min=3" -> [tag |-> "min", param |-> "3"]
ParseRule(text) ==
  Value({ IF i = 0 THEN [tag |-> text, param |-> ""]
          ELSE [tag |-> SubSeq(text, 1, i - 1), param |-> From(text, i + 1)]
          : i \in {Index(text, "=")} })

ParseValidateTag(tag) ==
  Value({ [i \in 1..Len(parts) |-> ParseRule(parts[i])]
          : parts \in {Split(tag, ",")} })

HasValue(v) == v # ZeroValue(v.k)

\* the quantity min, max, len, gte, lte, gt and lt compare: length of a text,
\* value of a number
Magnitude(v) == IF v.k = "string" THEN Len(v.s) ELSE v.i

ValueText(v) == IF v.k = "string" THEN v.s ELSE Itoa(v.i)

\* the address shape the email rule accepts, up to the inputs used here:
\* one "@" with text on both sides and no blank
IsEmail(s) ==
  LET parts == Split(s, "@")
  IN /\ Len(parts) = 2
     /\ Len(parts[1]) > 0
     /\ Len(parts[2]) > 0
     /\ ~Contains(s, " ")

\* an absolute URL: a scheme, then "://" or ":" and more text
IsURL(s) ==
  LET i == Index(s, ":")
  IN i > 1 /\ Len(s) > i /\ ~Contains(s, " ")

\* whether value v satisfies the rule
RuleHolds(rule, v) ==
  CASE rule.tag = "required" -> HasValue(v)
    [] rule.tag = "min"   -> Magnitude(v) >= Atoi(rule.param).n
    [] rule.tag = "gte"   -> Magnitude(v) >= Atoi(rule.param).n
    [] rule.tag = "max"   -> Magnitude(v) <= Atoi(rule.param).n
    [] rule.tag = "lte"   -> Magnitude(v) <= Atoi(rule.param).n
    [] rule.tag = "gt"    -> Magnitude(v) > Atoi(rule.param).n
    [] rule.tag = "lt"    -> Magnitude(v) < Atoi(rule.param).n
    [] rule.tag = "len"   -> Magnitude(v) = Atoi(rule.param).n
    [] rule.tag = "oneof" -> contains(Split(rule.param, " "), ValueText(v))
    [] rule.tag = "email" -> IsEmail(v.s)
    [] rule.tag = "url"   -> IsURL(v.s)
    [] OTHER -> TRUE

\* the field error carrying the name of the json tag
FieldError_WireName(field, rule) ==
  [field |-> WireName(field), tag |-> rule.tag, param |-> rule.param]

\* validator.FieldError: Field() is the struct field's name
FieldError(field, rule) ==
  [field |-> field.name, tag |-> rule.tag, param |-> rule.param]

\* every violated rule of the field reported
RECURSIVE traverseField_AllRules(_, _, _)
traverseField_AllRules(field, rls, v) ==
  Value({ IF Len(rules) = 0 THEN <<>>
          ELSE IF Head(rules).tag = "omitempty"
          THEN IF ~HasValue(v) THEN <<>>
               ELSE traverseField_AllRules(field, Tail(rules), v)
          ELSE (IF ~RuleHolds(Head(rules), v)
                THEN <<FieldError(field, Head(rules))>> ELSE <<>>)
               \o traverseField_AllRules(field, Tail(rules), v)
          : rules \in {rls} })

\* the rules of one field, in tag order: omitempty ends the field when the
\* value is empty, and the first violated rule is reported and ends the field
RECURSIVE traverseField(_, _, _)
traverseField(field, rls, v) ==
  Value({ IF Len(rules) = 0 THEN <<>>
          ELSE IF Head(rules).tag = "omitempty"
          THEN IF ~HasValue(v) THEN <<>> ELSE traverseField(field, Tail(rules), v)
          ELSE IF ~RuleHolds(Head(rules), v) THEN <<FieldError(field, Head(rules))>>
          ELSE traverseField(field, Tail(rules), v)
          : rules \in {rls} })

\* the schema annotation's required enforced along with the rules
FieldErrors_SchemaRequired(field, v) ==
  IF Contains(field.jsonschema, "required") /\ ~HasValue(v)
  THEN <<[field |-> field.name, tag |-> "required", param |-> ""]>>
  ELSE IF field.validate = "" \/ field.validate = "-" THEN <<>>
  ELSE traverseField(field, ParseValidateTag(field.validate), v)

\* the field errors of one field; a field without rules has none
FieldErrors(field, v) ==
  IF field.validate = "" \/ field.validate = "-" THEN <<>>
  ELSE traverseField(field, ParseValidateTag(field.validate), v)

\* validation that stops at the first field in error
RECURSIVE validateStruct_FirstFieldOnly(_, _)
validateStruct_FirstFieldOnly(flds, vals) ==
  Value({ IF Len(fields) = 0 THEN <<>>
          ELSE Value({ IF Len(errs) > 0 THEN errs
                       ELSE validateStruct_FirstFieldOnly(Tail(fields), Tail(f))
                       : errs \in {FieldErrors(Head(fields), Head(f))} })
          : fields \in {flds}, f \in {vals} })

\* every field is visited, in declaration order
RECURSIVE validateStruct(_, _)
validateStruct(flds, vals) ==
  Value({ IF Len(fields) = 0 THEN <<>>
          ELSE FieldErrors(Head(fields), Head(f))
               \o validateStruct(Tail(fields), Tail(f))
          : fields \in {flds}, f \in {vals} })

\* the error of w.validator.Struct(argsValue):
\*   kind "nil"                     no error
\*   kind "InvalidValidationError"  the value is not a struct or a pointer to one
\*   kind "ValidationErrors"        errs, the field errors
ValidatorStruct(argsValue) ==
  IF Kind(Elem(argsValue.typ)) # "struct"
  THEN [kind |-> "InvalidValidationError", typ |-> argsValue.typ, errs |-> <<>>]
  ELSE Value({ IF Len(errs) = 0
               THEN [kind |-> "nil", typ |-> "", errs |-> <<>>]
               ELSE [kind |-> "ValidationErrors", typ |-> "", errs |-> errs]
               : errs \in {validateStruct(StructFields(Elem(argsValue.typ)),
                                          argsValue.f)} })

formatFieldError(fieldErr) ==
  CASE fieldErr.tag = "required" -> "is required"
    [] fieldErr.tag = "min"   -> "must be at least " \o fieldErr.param
    [] fieldErr.tag = "max"   -> "must be at most " \o fieldErr.param
    [] fieldErr.tag = "email" -> "must be a valid email address"
    [] fieldErr.tag = "url"   -> "must be a valid URL"
    [] fieldErr.tag = "oneof" -> "must be one of: " \o fieldErr.param
    [] fieldErr.tag = "gte"   -> "must be greater than or equal to " \o fieldErr.param
    [] fieldErr.tag = "lte"   -> "must be less than or equal to " \o fieldErr.param
    [] fieldErr.tag = "gt"    -> "must be greater than " \o fieldErr.param
    [] fieldErr.tag = "lt"    -> "must be less than " \o fieldErr.param
    [] fieldErr.tag = "len"   -> "must be " \o fieldErr.param \o " characters long"
    [] OTHER -> "failed validation: " \o fieldErr.tag

\* the ValidationErrors built from the validator's field errors
formatValidationErrors(errs) ==
  [i \in 1..Len(errs) |->
     [Field |-> errs[i].field, Message |-> formatFieldError(errs[i])]]

\* (*ValidationError).Error
ValidationErrorError(e) == e.Field \o ": " \o e.Message

\* ValidationErrors.Error
ValidationErrorsError(errors) ==
  "validation failed: " \o
    Join([i \in 1..Len(errors) |-> ValidationErrorError(errors[i])], "; ")

\* Error() of what formatValidationErrors returns for the validator's error
ValidationMessage(verr) ==
  IF verr.kind = "ValidationErrors"
  THEN ValidationErrorsError(formatValidationErrors(verr.errs))
  ELSE "validator: (nil " \o verr.typ \o ")"

(***************************************************************************)
(* Results: what a handler returns and what the tool call returns          *)
(***************************************************************************)
\* a handler's result value (interface{}): kind k with text s or integer i
ResV(k, s, i) == [k |-> k, s |-> s, i |-> i, e |-> 0, l |-> <<>>]

NilV == ResV("nil", "", 0)

Quote(s) == "\"" \o s \o "\""

\* json.Marshal(result): [err, json]
jsonMarshal(result) ==
  CASE result.k \in {"*TestResult", "*GreetResult"} ->
         [err |-> NilErr, json |-> "{\"message\":" \o Quote(result.s) \o "}"]
    [] result.k = "string" -> [err |-> NilErr, json |-> Quote(result.s)]
    [] result.k = "int"    -> [err |-> NilErr, json |-> Itoa(result.i)]
    [] result.k = "bool"   ->
         [err |-> NilErr, json |-> IF result.i = 1 THEN "true" ELSE "false"]
    [] result.k = "nil"    -> [err |-> NilErr, json |-> "null"]
    [] OTHER -> [err |-> Err("json: unsupported type: " \o result.k), json |-> ""]

JSONShape(json) ==
  IF json = "null" THEN "null"
  ELSE IF At(json, 1) = "{" THEN "object"
  ELSE IF At(json, 1) = "\"" THEN "string"
  ELSE IF json \in {"true", "false"} THEN "bool"
  ELSE "number"

\* json.Unmarshal(resultJSON, &resultMap): an object fills the map, null
\* leaves it nil, anything else is an error
jsonUnmarshalMap(json) ==
  IF JSONShape(json) \in {"object", "null"} THEN NilErr
  ELSE Err("json: cannot unmarshal " \o JSONShape(json)
           \o " into Go value of type map[string]interface {}")

\* mcp.NewToolResultError / mcp.NewToolResultText
NewToolResultError(text) == [IsError |-> TRUE, Text |-> text]

NewToolResultText(text) == [IsError |-> FALSE, Text |-> text]

\* the (result, error) pair the tool function returns
Returned(result) == [result |-> <<result>>, err |-> NilErr]

BindFailure(err) ==
  Returned(NewToolResultError("failed to bind arguments: " \o err[1]))

ValidationFailure(verr) == Returned(NewToolResultError(ValidationMessage(verr)))

\* the handler's error handed back as the call's own error
HandlerFailure_AsFault(err) == [result |-> <<>>, err |-> err]

\* the handler's message replaced by a fixed text
HandlerFailure_NoMessage(err) == Returned(NewToolResultError("handler error"))

HandlerFailure(err) == Returned(NewToolResultError("handler error: " \o err[1]))

\* lines 66-80: [ok, ret]
EncodeResult(result) ==
  Value({ IF m.err # NilErr
          THEN [ok |-> FALSE,
                ret |-> Returned(NewToolResultError(
                          "failed to marshal result: " \o m.err[1]))]
          ELSE IF jsonUnmarshalMap(m.json) # NilErr
          THEN IF result.k # "string"
               THEN [ok |-> FALSE,
                     ret |-> Returned(NewToolResultError(
                               "failed to format result: "
                               \o jsonUnmarshalMap(m.json)[1]))]
               ELSE [ok |-> TRUE, ret |-> Returned(NewToolResultText(result.s))]
          ELSE [ok |-> TRUE, ret |-> Returned(NewToolResultText(m.json))]
          : m \in {jsonMarshal(result)} })

(***************************************************************************)
(* Bounds and input sets                                                   *)
(***************************************************************************)
\* invocations the Protocol Host may have in flight at once
MaxCalls == 2

CallIds == 1..MaxCalls

\* argument values handed to Register
RecordArgs == {"TestArgs", "*TestArgs"}

NonRecordArgs == {"string", "[]int", "map[string]string", "*int", UntypedNil}

AllArgs == RecordArgs \cup NonRecordArgs

\* struct values whose tags exercise the schema derivation
TaggedArgs == {"TestArgs", "GreetArgs", "ScenarioArgs", "TagArgs", "LimitArgs"}

\* struct values of the tools of a server with two tools
ServerArgs == {"ScenarioArgs", "GreetArgs"}

ToolNames == {"", "test-tool", "test-cmd"}

Commands ==
  [Use : {"", "test-cmd"},
   Short : {"", "Test command description"},
   Long : {"", "Long help"}]

Member(key, val) == [key |-> key, val |-> val]

Object(members) == [null |-> FALSE, members |-> members]

Null == [null |-> TRUE, members |-> <<>>]

\* the arguments of the calls the Protocol Host delivers
Requests ==
  { Object(<<Member("name", StrV("TestUser")), Member("age", IntV(30)),
             Member("category", StrV("A"))>>),
    Object(<<Member("name", StrV("AB")), Member("age", IntV(30)),
             Member("category", StrV("A"))>>),
    Object(<<Member("name", StrV("Dave")), Member("age", IntV(150)),
             Member("category", StrV("D"))>>),
    Object(<<Member("age", IntV(30)), Member("email", StrV("invalid-email")),
             Member("category", StrV("A"))>>),
    Object(<<Member("name", StrV("Alice")), Member("age", StrV("thirty")),
             Member("category", StrV("A"))>>),
    Null }

\* the arguments of the calls to a tool that takes ScenarioArgs
ScenarioRequests ==
  { Object(<<Member("name", StrV("Alice")), Member("age", IntV(30)),
             Member("size", StrV("small"))>>),
    Object(<<Member("name", StrV("Alice"))>>),
    Object(<<Member("name", StrV("Alice")), Member("age", IntV(150)),
             Member("size", StrV("huge"))>>),
    Object(<<Member("name", StrV("Al")), Member("age", IntV(30))>>) }

\* the arguments of the calls to a tool that takes GreetArgs
GreetRequests ==
  { Object(<<Member("name", StrV("Ann")), Member("format", StrV("formal"))>>),
    Object(<<Member("format", StrV("loud"))>>) }

\* greetHandler
greetHandler(args) ==
  [result |-> ResV("*GreetResult",
                   IF args.f[2].s = "formal" THEN "Good day, " \o args.f[1].s
                   ELSE "Hey " \o args.f[1].s \o "!", 0),
   err |-> NilErr]

\* what a business handler may return for the arguments it is given: the
\* handler registered with GreetArgs is greetHandler, the one registered
\* with ScenarioArgs answers, fails or returns a number, the one of the tests
\* returns anything
HandlerReturns(args) ==
  IF args.typ = "*GreetArgs" THEN {greetHandler(args)}
  ELSE IF args.typ = "*ScenarioArgs" THEN
  { [result |-> ResV("*TestResult", "Hello, " \o args.f[1].s, 0), err |-> NilErr],
    [result |-> NilV, err |-> Err("handler error")],
    [result |-> ResV("int", "", 42), err |-> NilErr] }
  ELSE
  { [result |-> ResV("*TestResult", "Hello, " \o args.f[1].s, 0), err |-> NilErr],
    [result |-> NilV, err |-> Err("division by zero")],
    [result |-> NilV, err |-> Err("handler error")],
    [result |-> ResV("string", "done", 0), err |-> NilErr],
    [result |-> ResV("int", "", 42), err |-> NilErr],
    [result |-> NilV, err |-> NilErr],
    [result |-> ResV("chan int", "", 0), err |-> NilErr] }

(***************************************************************************)
(* State                                                                   *)
(***************************************************************************)
VARIABLES
  tools,    \* the server's tools: name -> <<>> or <<the registered tool>>
  lastReg,  \* the last registration call: its inputs and what it returned
  calls     \* the tool calls in flight, by call id: the stage reached (pc),
            \* the closure's argsType, the request, the locals argsValue,
            \* violations (validationErr) and hret (the handler's return),
            \* how often and with what the handler ran, and the pair returned

vars == <<tools, lastReg, calls>>

NoArgs == [typ |-> "", nilElem |-> FALSE, f |-> <<>>]

NoReturn == [result |-> NilV, err |-> NilErr]

Idle ==
  [pc |-> "IDLE", tool |-> "", argsType |-> "", request |-> Null,
   argsValue |-> NoArgs, violations |-> <<>>, handlerCalls |-> 0,
   handlerArgs |-> NoArgs, hret |-> NoReturn, result |-> <<>>, err |-> NilErr]

NoReg ==
  [op |-> "none", name |-> "", description |-> "", short |-> "", long |-> "",
   argsType |-> "", err |-> NilErr, panicked |-> FALSE]

Init ==
  /\ tools = [n \in ToolNames |-> <<>>]
  /\ lastReg = NoReg
  /\ calls = [c \in CallIds |-> Idle]

\* server.ListTools: the names that have a tool
ListTools == {n \in ToolNames : tools[n] # <<>>}

(***************************************************************************)
(* Registration                                                            *)
(***************************************************************************)
\* buildSchema is a pure function: its value for each argument value in use
SchemaOf == [argsType \in AllArgs \cup TaggedArgs |-> buildSchema(argsType)]

\* Wrapper.Register on the tool table ts: [tools, err, panicked]
RegisterResult(ts, name, description, argsType) ==
  Value({ IF b.panic THEN [tools |-> ts, err |-> NilErr, panicked |-> TRUE]
          ELSE IF b.err # NilErr
          THEN [tools |-> ts,
                err |-> Err("failed to build schema for tool " \o name \o ": "
                            \o b.err[1]),
                panicked |-> FALSE]
          ELSE [tools |-> [ts EXCEPT ![name] =
                             <<[name |-> name, description |-> description,
                                schema |-> b.schema[1], argsType |-> argsType]>>],
                err |-> NilErr, panicked |-> FALSE]
          : b \in {SchemaOf[argsType]} })

\* the long-form description never consulted
CobraDescription_SkipLong(cmd) ==
  IF cmd.Short # "" THEN cmd.Short
  ELSE "Execute " \o cmd.Use \o " command"

\* the description RegisterCobra passes on
CobraDescription(cmd) ==
  IF cmd.Short # "" THEN cmd.Short
  ELSE IF cmd.Long # "" THEN cmd.Long
  ELSE "Execute " \o cmd.Use \o " command"

\* registration from a command without the check of its Use field
RegisterCobraResult_NoUseCheck(ts, cmd, argsType) ==
  RegisterResult(ts, cmd.Use, CobraDescription(cmd), argsType)

\* Wrapper.RegisterCobra on the tool table ts: [tools, err, panicked]
RegisterCobraResult(ts, cmd, argsType) ==
  IF cmd.Use = ""
  THEN [tools |-> ts, err |-> Err("cobra command must have a Use field"),
        panicked |-> FALSE]
  ELSE RegisterResult(ts, cmd.Use, CobraDescription(cmd), argsType)

Register(name, description, argsType) ==
  \E r \in {RegisterResult(tools, name, description, argsType)} :
     /\ tools' = r.tools
     /\ lastReg' = [op |-> "Register", name |-> name, description |-> description,
                    short |-> "", long |-> "", argsType |-> argsType,
                    err |-> r.err, panicked |-> r.panicked]
     /\ UNCHANGED calls

RegisterCobra(cmd, argsType) ==
  \E r \in {RegisterCobraResult(tools, cmd, argsType)} :
     /\ tools' = r.tools
     /\ lastReg' = [op |-> "RegisterCobra", name |-> cmd.Use, description |-> "",
                    short |-> cmd.Short, long |-> cmd.Long, argsType |-> argsType,
                    err |-> r.err, panicked |-> r.panicked]
     /\ UNCHANGED calls

(***************************************************************************)
(* Invocation: the function createHandler returns, one stage per step      *)
(***************************************************************************)
Terminal ==
  {"DONE", "DECODE_FAILED", "VALIDATION_FAILED", "HANDLER_FAILED", "ENCODE_FAILED"}

Finish(c, pc, ret) ==
  calls' = [calls EXCEPT ![c].pc = pc, ![c].result = ret.result, ![c].err = ret.err]

\* the Protocol Host routes a call to the function registered under name
Receive(c, name, request) ==
  /\ calls[c].pc = "IDLE"
  /\ tools[name] # <<>>
  /\ calls' = [calls EXCEPT ![c] =
       [Idle EXCEPT !.pc = "RECEIVED", !.tool = name,
                    !.argsType = tools[name][1].argsType, !.request = request]]
  /\ UNCHANGED <<tools, lastReg>>

\* decoding into the instance another call of the same tool has allocated
DecodeStep_SharedInstance(c) ==
  /\ calls[c].pc = "RECEIVED"
  /\ \E shared \in {{d \in CallIds : /\ d # c
                                      /\ calls[d].argsType = calls[c].argsType
                                      /\ calls[d].argsValue # NoArgs}} :
     \E b \in {BindArguments(calls[c].request,
                             IF shared # {}
                             THEN calls[CHOOSE d \in shared : TRUE].argsValue
                             ELSE NewArgsValue(calls[c].argsType))} :
        IF b.err # NilErr
        THEN Finish(c, "DECODE_FAILED", BindFailure(b.err))
        ELSE calls' = [calls EXCEPT ![c].pc = "DECODED", ![c].argsValue = b.value]
  /\ UNCHANGED <<tools, lastReg>>

\* lines 50-54
DecodeStep(c) ==
  /\ calls[c].pc = "RECEIVED"
  /\ \E b \in {BindArguments(calls[c].request, NewArgsValue(calls[c].argsType))} :
        IF b.err # NilErr
        THEN Finish(c, "DECODE_FAILED", BindFailure(b.err))
        ELSE calls' = [calls EXCEPT ![c].pc = "DECODED", ![c].argsValue = b.value]
  /\ UNCHANGED <<tools, lastReg>>

\* validation whose error does not end the call
ValidateStep_NoReturn(c) ==
  /\ calls[c].pc = "DECODED"
  /\ calls' = [calls EXCEPT ![c].pc = "VALID"]
  /\ UNCHANGED <<tools, lastReg>>

\* lines 56-59
ValidateStep(c) ==
  /\ calls[c].pc = "DECODED"
  /\ \E verr \in {ValidatorStruct(calls[c].argsValue)} :
        IF verr.kind # "nil"
        THEN calls' = [calls EXCEPT
               ![c].pc = "VALIDATION_FAILED",
               ![c].violations = formatValidationErrors(verr.errs),
               ![c].result = ValidationFailure(verr).result,
               ![c].err = ValidationFailure(verr).err]
        ELSE calls' = [calls EXCEPT ![c].pc = "VALID"]
  /\ UNCHANGED <<tools, lastReg>>

\* a handler error answered by running the handler once more
InvokeStep_Retry(c) ==
  /\ calls[c].pc = "VALID"
  /\ \E h \in HandlerReturns(calls[c].argsValue) :
       LET called == [calls EXCEPT ![c].handlerCalls = @ + 1,
                                   ![c].handlerArgs = calls[c].argsValue,
                                   ![c].hret = h]
       IN IF h.err # NilErr /\ calls[c].handlerCalls = 0
          THEN calls' = called
          ELSE IF h.err # NilErr
          THEN calls' = [called EXCEPT ![c].pc = "HANDLER_FAILED",
                                       ![c].result = HandlerFailure(h.err).result,
                                       ![c].err = HandlerFailure(h.err).err]
          ELSE calls' = [called EXCEPT ![c].pc = "INVOKED"]
  /\ UNCHANGED <<tools, lastReg>>

\* lines 61-64
InvokeStep(c) ==
  /\ calls[c].pc = "VALID"
  /\ \E h \in HandlerReturns(calls[c].argsValue) :
       LET called == [calls EXCEPT ![c].handlerCalls = @ + 1,
                                   ![c].handlerArgs = calls[c].argsValue,
                                   ![c].hret = h]
       IN IF h.err # NilErr
          THEN calls' = [called EXCEPT ![c].pc = "HANDLER_FAILED",
                                       ![c].result = HandlerFailure(h.err).result,
                                       ![c].err = HandlerFailure(h.err).err]
          ELSE calls' = [called EXCEPT ![c].pc = "INVOKED"]
  /\ UNCHANGED <<tools, lastReg>>

\* lines 66-80
EncodeStep(c) ==
  /\ calls[c].pc = "INVOKED"
  /\ \E e \in {EncodeResult(calls[c].hret.result)} :
        Finish(c, IF e.ok THEN "DONE" ELSE "ENCODE_FAILED", e.ret)
  /\ UNCHANGED <<tools, lastReg>>

\* the Protocol Host has taken the returned result
Return(c) ==
  /\ calls[c].pc \in Terminal
  /\ calls' = [calls EXCEPT ![c] = Idle]
  /\ UNCHANGED <<tools, lastReg>>

(***************************************************************************)
(* Specifications                                                          *)
(***************************************************************************)
\* a server on which one tool is registered and called
Next ==
  \/ \E argsType \in {"TestArgs", "*TestArgs"} :
       Register("test-tool", "Test tool", argsType)
  \/ \E c \in CallIds, request \in Requests : Receive(c, "test-tool", request)
  \/ \E c \in CallIds : DecodeStep(c)
  \/ \E c \in CallIds : ValidateStep(c)
  \/ \E c \in CallIds : InvokeStep(c)
  \/ \E c \in CallIds : EncodeStep(c)
  \/ \E c \in CallIds : Return(c)

Spec == Init /\ [][Next]_vars

\* the setup phase: every registration call, with every shape of argument
NextReg ==
  \/ \E name \in {"", "test-tool"}, argsType \in AllArgs :
       Register(name, "Test tool", argsType)
  \/ \E cmd \in Commands, argsType \in AllArgs : RegisterCobra(cmd, argsType)

SpecReg == Init /\ [][NextReg]_vars

\* the setup phase of servers whose tools take tagged structs
NextSchema ==
  \E name \in {"test-tool", "test-cmd"},
     description \in {"Test tool", "Test command description"},
     argsType \in TaggedArgs :
       Register(name, description, argsType)

SpecSchema == Init /\ [][NextSchema]_vars

\* a server with two tools, registered with different argument types and
\* handlers and called concurrently
NextServer ==
  \/ Register("test-tool", "Test tool", "ScenarioArgs")
  \/ RegisterCobra([Use |-> "test-cmd", Short |-> "Test command description",
                    Long |-> ""], "GreetArgs")
  \/ \E c \in CallIds, request \in ScenarioRequests : Receive(c, "test-tool", request)
  \/ \E c \in CallIds, request \in GreetRequests : Receive(c, "test-cmd", request)
  \/ \E c \in CallIds : DecodeStep(c)
  \/ \E c \in CallIds : ValidateStep(c)
  \/ \E c \in CallIds : InvokeStep(c)
  \/ \E c \in CallIds : EncodeStep(c)
  \/ \E c \in CallIds : Return(c)

SpecServer == Init /\ [][NextServer]_vars

\* one tool whose calls end in each of the five outcomes
PipelineRequests ==
  { Object(<<Member("name", StrV("Alice")), Member("age", IntV(30))>>),
    Object(<<Member("name", StrV("Al")), Member("age", IntV(30))>>),
    Object(<<Member("name", StrV("Alice")), Member("age", StrV("thirty"))>>) }

NextPipeline ==
  \/ Register("test-tool", "Test tool", "ScenarioArgs")
  \/ \E c \in CallIds, request \in PipelineRequests : Receive(c, "test-tool", request)
  \/ \E c \in CallIds : DecodeStep(c)
  \/ \E c \in CallIds : ValidateStep(c)
  \/ \E c \in CallIds : InvokeStep(c)
  \/ \E c \in CallIds : EncodeStep(c)
  \/ \E c \in CallIds : Return(c)

\* every stage of a call in flight is run to its end: the function
\* createHandler returns has no loop and no wait, and the handler is taken
\* to return
Progress ==
  \A c \in CallIds :
    /\ WF_vars(DecodeStep(c))
    /\ WF_vars(ValidateStep(c))
    /\ WF_vars(InvokeStep(c))
    /\ WF_vars(EncodeStep(c))

SpecPipeline == Init /\ [][NextPipeline]_vars /\ Progress

(***************************************************************************)
(* Properties of the invocation pipeline (Spec)                            *)
(***************************************************************************)
\* what binding each request into a fresh instance of each registered
\* argument type yields, and what the validator says of the bound instance
AllRequests == Requests \cup ScenarioRequests \cup GreetRequests

BoundOf ==
  [t \in RecordArgs \cup ServerArgs |->
     [r \in AllRequests |-> BindArguments(r, NewArgsValue(t))]]

ValidatedOf ==
  [t \in RecordArgs \cup ServerArgs |->
     [r \in AllRequests |-> ValidatorStruct(BoundOf[t][r].value).kind]]

\* the rules of each field of each struct type, parsed from its validate tag
FieldRules ==
  [t \in StructTypes |->
     [i \in 1..Len(StructFields(t)) |-> ParseValidateTag(StructFields(t)[i].validate)]]

\* what binding the call's request into a fresh instance yields
Bound(c) == BoundOf[calls[c].argsType][calls[c].request]

\* C1: the business handler runs only in a call whose arguments were bound
\* without error and whose decoded instance passed validation; a call that
\* ended in a decode or validation failure never ran it.
C1_HandlerOnlyAfterDecodeAndValidate ==
  \A c \in CallIds :
    /\ calls[c].handlerCalls > 0 =>
         /\ Bound(c).err = NilErr
         /\ ValidatedOf[calls[c].argsType][calls[c].request] = "nil"
         /\ calls[c].handlerArgs = Bound(c).value
    /\ calls[c].pc \in {"DECODE_FAILED", "VALIDATION_FAILED"} =>
         calls[c].handlerCalls = 0

C1_Witness ==
  \E c, d \in CallIds :
    /\ calls[c].pc = "VALIDATION_FAILED" /\ calls[c].handlerCalls = 0
    /\ calls[d].pc = "DECODE_FAILED" /\ calls[d].handlerCalls = 0

\* C2: whichever stage fails (decode, validate, handler, encode), the call
\* returns a result with the is-error flag set and a nil error.
C2_FailuresAreErrorResults ==
  \A c \in CallIds :
    calls[c].pc \in Terminal \ {"DONE"} =>
      /\ calls[c].result # <<>>
      /\ calls[c].result[1].IsError
      /\ calls[c].err = NilErr

C2_Witness ==
  \E c, d \in CallIds :
    /\ calls[c].pc = "HANDLER_FAILED" /\ calls[c].result[1].IsError
    /\ calls[d].pc = "ENCODE_FAILED" /\ calls[d].result[1].IsError

\* C3: when the handler returns an error with message m, the call returns
\* the error result whose text is "handler error: " followed by m.
C3_HandlerErrorMessage ==
  \A c \in CallIds :
    (calls[c].handlerCalls > 0 /\ calls[c].hret.err # NilErr) =>
      /\ calls[c].pc = "HANDLER_FAILED"
      /\ calls[c].result =
           <<[IsError |-> TRUE, Text |-> "handler error: " \o calls[c].hret.err[1]]>>
      /\ calls[c].err = NilErr

C3_Witness ==
  \E c \in CallIds :
    /\ calls[c].hret.err = Err("division by zero")
    /\ calls[c].result =
         <<[IsError |-> TRUE, Text |-> "handler error: division by zero"]>>

\* positions of the rules of field f of struct type t that v violates; rules after
\* an omitempty are not evaluated on an empty value
ViolatedRules(t, f, v) ==
  LET rules == FieldRules[t][f]
  IN { i \in 1..Len(rules) :
         /\ rules[i].tag # "omitempty"
         /\ ~RuleHolds(rules[i], v)
         /\ ~\E j \in 1..(i - 1) : rules[j].tag = "omitempty" /\ ~HasValue(v) }

\* the fields of the call's struct whose decoded value violates a rule
Offending(c) ==
  LET t == BaseStruct(calls[c].argsType)
  IN { i \in 1..Len(StructFields(t)) : ViolatedRules(t, i, calls[c].argsValue.f[i]) # {} }

\* the elements of 1..n that lie in S, ascending
RECURSIVE Ascending(_, _)
Ascending(S, n) ==
  IF n = 0 THEN <<>>
  ELSE Ascending(S, n - 1) \o (IF n \in S THEN <<n>> ELSE <<>>)

\* the sequence with repeated neighbours merged
RECURSIVE Merged(_)
Merged(seq) ==
  IF Len(seq) <= 1 THEN seq
  ELSE IF seq[1] = seq[2] THEN Merged(Tail(seq))
  ELSE <<seq[1]>> \o Merged(Tail(seq))

\* C4: validation does not stop at the first field in error: the violations
\* name every field that violates a rule, in declaration order, and the
\* error text is "validation failed: " and the "field: message" entries
\* joined by "; " in that order.
C4_EveryFieldReported ==
  \A c \in CallIds :
    (calls[c].pc = "VALIDATION_FAILED" /\ Kind(calls[c].argsType) = "struct") =>
      LET fields == StructFields(calls[c].argsType)
          off    == Ascending(Offending(c), Len(fields))
          v      == calls[c].violations
      IN /\ Merged([i \in 1..Len(v) |-> v[i].Field])
              = [i \in 1..Len(off) |-> fields[off[i]].name]
         /\ calls[c].result[1].Text = "validation failed: " \o
              Join([i \in 1..Len(v) |-> v[i].Field \o ": " \o v[i].Message], "; ")

\* age=150 and category="D" with a valid name: two violations, Age then Category
C4_Witness ==
  \E c \in CallIds :
    /\ calls[c].pc = "VALIDATION_FAILED"
    /\ Cardinality(Offending(c)) = 2
    /\ calls[c].result[1].Text =
         "validation failed: Age: must be less than or equal to 120; "
         \o "Category: must be one of: A B C"

\* the messages of the violations reported for one field
RECURSIVE MessagesOf(_, _)
MessagesOf(v, name) ==
  IF Len(v) = 0 THEN <<>>
  ELSE (IF Head(v).Field = name THEN <<Head(v).Message>> ELSE <<>>)
       \o MessagesOf(Tail(v), name)

\* C5 as stated: one entry per rule violated, so a field violating n rules
\* has n entries, in rule order.
C5_OneEntryPerViolatedRule ==
  \A c \in CallIds :
    (calls[c].pc = "VALIDATION_FAILED" /\ Kind(calls[c].argsType) = "struct") =>
      LET fields == StructFields(calls[c].argsType)
      IN \A i \in 1..Len(fields) :
           LET rules == FieldRules[calls[c].argsType][i]
               bad   == Ascending(ViolatedRules(calls[c].argsType, i, calls[c].argsValue.f[i]),
                                  Len(rules))
           IN MessagesOf(calls[c].violations, fields[i].name)
                = [k \in 1..Len(bad) |->
                     formatFieldError(FieldError(fields[i], rules[bad[k]]))]

\* C5 (amended): one entry per field in error, for the first rule, in rule
\* order, that the field violates; further violated rules of the same field
\* are not reported.
C5_FirstViolatedRulePerField ==
  \A c \in CallIds :
    (calls[c].pc = "VALIDATION_FAILED" /\ Kind(calls[c].argsType) = "struct") =>
      LET fields == StructFields(calls[c].argsType)
      IN \A i \in 1..Len(fields) :
           LET rules == FieldRules[calls[c].argsType][i]
               bad   == Ascending(ViolatedRules(calls[c].argsType, i, calls[c].argsValue.f[i]),
                                  Len(rules))
           IN MessagesOf(calls[c].violations, fields[i].name)
                = IF Len(bad) = 0 THEN <<>>
                  ELSE <<formatFieldError(FieldError(fields[i], rules[bad[1]]))>>

\* an empty name violates both required and min=3 and is reported once
C5_Witness ==
  \E c \in CallIds :
    /\ calls[c].pc = "VALIDATION_FAILED"
    /\ Kind(calls[c].argsType) = "struct"
    /\ Cardinality(ViolatedRules(calls[c].argsType, 1, calls[c].argsValue.f[1])) = 2
    /\ MessagesOf(calls[c].violations, "Name") = <<"is required">>

\* the request decodes into struct type t and meets every rule of t
Acceptable(request, t) ==
  LET b == BoundOf[t][request]
  IN /\ b.err = NilErr
     /\ ~request.null
     /\ \A i \in 1..Len(StructFields(t)) : ViolatedRules(t, i, b.value.f[i]) = {}

\* C7 as stated: once Register has accepted an argument type (a struct or a
\* pointer to one), a call whose arguments decode and meet every rule
\* reaches the handler with a pointer to the decoded struct.
C7_RegisteredToolIsInvocable ==
  \A c \in CallIds :
    (/\ calls[c].pc \in Terminal
     /\ Acceptable(calls[c].request, BaseStruct(calls[c].argsType))) =>
      /\ calls[c].pc \notin {"DECODE_FAILED", "VALIDATION_FAILED"}
      /\ calls[c].handlerCalls = 1
      /\ calls[c].handlerArgs.typ = PtrTo(BaseStruct(calls[c].argsType))

(***************************************************************************)
(* Properties of registration (SpecReg)                                    *)
(***************************************************************************)
\* the last registration call reached buildSchema
SchemaDerived ==
  \/ lastReg.op = "Register"
  \/ lastReg.op = "RegisterCobra" /\ lastReg.name # ""

\* C6 as stated: schema derivation succeeds for every struct-shaped argument
\* and, for every other argument (scalar, collection, map, pointer to a
\* non-struct, nil), returns the error "argsType must be a struct" instead of
\* faulting.
C6_SchemaDerivationTotal ==
  SchemaDerived =>
    /\ ~lastReg.panicked
    /\ lastReg.argsType \in RecordArgs => lastReg.err = NilErr
    /\ lastReg.argsType \in NonRecordArgs =>
         /\ lastReg.err # NilErr
         /\ Contains(lastReg.err[1], "argsType must be a struct")

\* C8 as stated: every registration path rejects an empty tool name and
\* registers nothing under it.
C8_EmptyNameRejected ==
  (lastReg.op # "none" /\ lastReg.name = "" /\ ~lastReg.panicked) =>
    /\ lastReg.err # NilErr
    /\ tools[""] = <<>>

\* C9: RegisterCobra with an empty Use returns an error and leaves the tool
\* listing as it was, and a registration that follows the failed call, with
\* a name and a struct-shaped argument, succeeds and lists its tool.
C9_FailedCobraLeavesListing ==
  [][ /\ (lastReg'.op = "RegisterCobra" /\ lastReg'.name = "") =>
           /\ lastReg'.err # NilErr
           /\ ~lastReg'.panicked
           /\ tools' = tools
      /\ (/\ lastReg.op = "RegisterCobra" /\ lastReg.name = ""
          /\ lastReg'.name # "" /\ lastReg'.argsType \in RecordArgs) =>
           /\ lastReg'.err = NilErr
           /\ lastReg'.name \in {n \in ToolNames : tools'[n] # <<>>}
           /\ \A n \in ListTools : tools'[n] # <<>>
    ]_vars

\* a tool is listed and the last call, RegisterCobra without Use, failed
C9_Witness ==
  /\ lastReg.op = "RegisterCobra"
  /\ lastReg.name = ""
  /\ lastReg.err = Err("cobra command must have a Use field")
  /\ ListTools # {}

\* the last call was a RegisterCobra that registered its tool
CobraRegistered ==
  /\ lastReg.op = "RegisterCobra"
  /\ lastReg.name # ""
  /\ lastReg.err = NilErr
  /\ ~lastReg.panicked

\* C10 as stated: the registered description is Short, else Long, else
\* "Execute {name}"; the tool name is the identifier.
C10_DescriptionFallback ==
  CobraRegistered =>
    /\ tools[lastReg.name] # <<>>
    /\ tools[lastReg.name][1].name = lastReg.name
    /\ tools[lastReg.name][1].description =
         IF lastReg.short # "" THEN lastReg.short
         ELSE IF lastReg.long # "" THEN lastReg.long
         ELSE "Execute " \o lastReg.name

\* C10 (amended): the registered description is Short, else Long, else
\* "Execute {name} command"; the tool name is the identifier.
C10_DescriptionFallbackCommand ==
  CobraRegistered =>
    /\ tools[lastReg.name] # <<>>
    /\ tools[lastReg.name][1].name = lastReg.name
    /\ tools[lastReg.name][1].description =
         IF lastReg.short # "" THEN lastReg.short
         ELSE IF lastReg.long # "" THEN lastReg.long
         ELSE "Execute " \o lastReg.name \o " command"

\* a command with neither description, and one with only the long form
C10_Witness ==
  /\ CobraRegistered
  /\ lastReg.short = ""
  /\ tools[lastReg.name][1].description \in {"Execute test-cmd command", "Long help"}

(***************************************************************************)
(* Properties of schema derivation (SpecSchema)                            *)
(***************************************************************************)
\* the tokens of a schema annotation, blanks around each removed
BareTokens(tag) ==
  LET parts == Split(tag, ",") IN {TrimSpace(parts[i]) : i \in 1..Len(parts)}

\* the field is marked required by either annotation
MarkedRequired(field) ==
  \/ "required" \in BareTokens(field.jsonschema)
  \/ Occurrences(field.validate, "required") # {}

\* the field has a wire name, so it is part of the schema
InSchema(field) == field.json \notin {"", "-"}

Count(seq, x) == Cardinality({i \in 1..Len(seq) : seq[i] = x})

\* the schema of the tool registered under name n
SchemaAt(n) == tools[n][1].schema

\* C11: in every derived schema the wire name of a field is in the required
\* list exactly once if its schema annotation has the bare token required or
\* its validation annotation contains "required" anywhere, however often
\* either mentions it, and not at all otherwise; the list has no duplicate.
C11_RequiredExactlyOnce ==
  \A n \in ToolNames :
    tools[n] # <<>> =>
      LET fields == StructFields(BaseStruct(tools[n][1].argsType))
          req    == SchemaAt(n).Required
      IN /\ \A i \in 1..Len(fields) :
              InSchema(fields[i]) =>
                Count(req, WireName(fields[i])) =
                  IF MarkedRequired(fields[i]) THEN 1 ELSE 0
         /\ \A i, j \in 1..Len(req) : req[i] = req[j] => i = j

\* TagArgs registered: a is named four times and listed once, b by a spaced
\* token, d by required_with; c, e and the fields without wire name are not
C11_Witness ==
  /\ tools["test-tool"] # <<>>
  /\ tools["test-tool"][1].argsType = "TagArgs"
  /\ SchemaAt("test-tool").Required = <<"a", "b", "d">>

(***************************************************************************)
(* Properties of encoding (Spec)                                           *)
(***************************************************************************)
\* the result is a record, which JSON encodes as a keyed mapping
IsMapping(result) == result.k \in {"*TestResult", "*GreetResult"}

IsText(result) == result.k = "string"

\* C12 as stated: after the handler succeeds, a result encodable as a keyed
\* mapping is returned as that encoding in a success result, a plain text
\* as its raw text in a success result, and any other result (a number, a
\* nil, an unencodable value) as an error result at ENCODE_FAILED.
C12_ResultByEncodability ==
  \A c \in CallIds :
    (calls[c].pc \in Terminal /\ calls[c].handlerCalls > 0
       /\ calls[c].hret.err = NilErr) =>
      LET r == calls[c].hret.result
      IN IF IsMapping(r)
         THEN /\ calls[c].pc = "DONE"
              /\ calls[c].result = <<NewToolResultText(jsonMarshal(r).json)>>
         ELSE IF IsText(r)
         THEN /\ calls[c].pc = "DONE"
              /\ calls[c].result = <<NewToolResultText(r.s)>>
         ELSE /\ calls[c].pc = "ENCODE_FAILED"
              /\ calls[c].result # <<>>
              /\ calls[c].result[1].IsError

(***************************************************************************)
(* Properties of concurrent calls (SpecServer)                             *)
(***************************************************************************)
\* the whole of createHandler's function run in one piece on a request, for
\* the return h of the handler: the handler's arguments and the pair returned
RunAlone(argsType, request, h) ==
  LET b == BoundOf[argsType][request]
  IN IF b.err # NilErr THEN [args |-> NoArgs, ret |-> BindFailure(b.err)]
     ELSE IF ValidatedOf[argsType][request] # "nil"
     THEN [args |-> NoArgs, ret |-> ValidationFailure(ValidatorStruct(b.value))]
     ELSE IF h.err # NilErr THEN [args |-> b.value, ret |-> HandlerFailure(h.err)]
     ELSE [args |-> b.value, ret |-> EncodeResult(h.result).ret]

AloneOf ==
  [t \in ServerArgs |->
     [r \in ScenarioRequests \cup GreetRequests |->
        [h \in HandlerReturns(BoundOf[t][r].value) \cup {NoReturn} |->
           RunAlone(t, r, h)]]]

\* every call in flight holds an instance filled from its own request only,
\* its handler was given that instance, and what it returned is what the
\* same call returns when it runs alone
CallsIsolated ==
  \A c \in CallIds :
    LET t == calls[c].argsType
        r == calls[c].request
    IN /\ calls[c].pc \in {"DECODED", "VALID", "INVOKED", "DONE", "VALIDATION_FAILED",
                           "HANDLER_FAILED", "ENCODE_FAILED"} =>
            calls[c].argsValue = BoundOf[t][r].value
       /\ calls[c].handlerCalls > 0 =>
            calls[c].handlerArgs = AloneOf[t][r][calls[c].hret].args
       /\ calls[c].pc \in Terminal =>
            /\ [result |-> calls[c].result, err |-> calls[c].err]
                 = AloneOf[t][r][calls[c].hret].ret
            /\ calls[c].handlerCalls > 0 <=> AloneOf[t][r][calls[c].hret].args # NoArgs

\* a step of a call leaves the tools as registered, and a call in flight
\* keeps the argument type it was created with
BindingReadOnly ==
  \A c \in CallIds :
    calls'[c] # calls[c] =>
      /\ tools' = tools
      /\ calls[c].pc # "IDLE" /\ calls'[c].pc # "IDLE" =>
           /\ calls'[c].argsType = calls[c].argsType
           /\ calls'[c].tool = calls[c].tool
           /\ calls'[c].request = calls[c].request

\* C13: under any interleaving of calls of the same tool or of different
\* tools, each call fills its own fresh instance, its handler receives the
\* arguments of its own request, its result is the one it has when run
\* alone, and no call changes a binding.
C13_ConcurrentCallsIsolated == [] CallsIsolated /\ [][BindingReadOnly]_vars

\* two calls of different tools in flight together, both past their handler
C13_Witness ==
  \E c, d \in CallIds :
    /\ calls[c].tool = "test-tool" /\ calls[c].pc = "DONE"
    /\ calls[c].handlerArgs.f[2] = IntV(150)
    /\ calls[d].tool = "test-cmd" /\ calls[d].pc = "INVOKED"
    /\ calls[d].handlerArgs.f[1] = StrV("Ann")

(***************************************************************************)
(* Properties of the reported violations (SpecServer)                      *)
(***************************************************************************)
\* the request of the claim's example: name "Al" under the rule min=3
ShortName == Object(<<Member("name", StrV("Al")), Member("age", IntV(30))>>)

\* C14 as stated: each reported violation is addressed by the wire name of
\* its field, so name "Al" under min=3 is reported on "name".
C14_ViolationNamesWireName ==
  \A c \in CallIds :
    calls[c].pc = "VALIDATION_FAILED" =>
      LET fields == StructFields(calls[c].argsType)
          v      == calls[c].violations
      IN /\ \A i \in 1..Len(v) :
              \E k \in Offending(c) : v[i].Field = WireName(fields[k])
         /\ calls[c].request = ShortName =>
              v = <<[Field |-> "name", Message |-> "must be at least 3"]>>

\* C14 (amended): each reported violation is addressed by the in-language
\* name of its field, not by its wire name: name "Al" under min=3 is the one
\* violation, reported on "Name" with message "must be at least 3".
C14_ViolationNamesGoField ==
  \A c \in CallIds :
    calls[c].pc = "VALIDATION_FAILED" =>
      LET fields == StructFields(calls[c].argsType)
          v      == calls[c].violations
      IN /\ \A i \in 1..Len(v) :
              \E k \in Offending(c) :
                 v[i].Field = fields[k].name /\ v[i].Field # WireName(fields[k])
         /\ calls[c].request = ShortName =>
              /\ v = <<[Field |-> "Name", Message |-> "must be at least 3"]>>
              /\ calls[c].result =
                   <<NewToolResultError("validation failed: Name: must be at least 3")>>

C14_Witness ==
  \E c \in CallIds :
    /\ calls[c].pc = "VALIDATION_FAILED"
    /\ calls[c].request = ShortName
    /\ calls[c].violations = <<[Field |-> "Name", Message |-> "must be at least 3"]>>

(***************************************************************************)
(* Properties of the numeric schema constraints (SpecSchema)               *)
(***************************************************************************)
LimitKeys == {"minimum", "maximum", "minLength", "maxLength"}

\* the text as a whole is a decimal number with a point: [ok, m, e], the
\* number being m * 10^e
WholeFloat(str) ==
  LET body  == IF HasPrefix(str, "-") \/ HasPrefix(str, "+") THEN From(str, 2) ELSE str
      n     == DigitRun(body)
      point == n < Len(body) /\ At(body, n + 1) = "."
      m     == IF point THEN DigitRun(From(body, n + 2)) ELSE 0
      mant  == DigitsVal(SubSeq(body, 1, n) \o SubSeq(body, n + 2, n + 1 + m))
  IN IF n + m > 0 /\ Len(body) = n + (IF point THEN 1 + m ELSE 0)
     THEN [ok |-> TRUE, m |-> IF HasPrefix(str, "-") THEN 0 - mant ELSE mant, e |-> 0 - m]
     ELSE [ok |-> FALSE, m |-> 0, e |-> 0]

\* the value the whole text denotes: an integer, else a float, else the text
WholeNumber(str) ==
  IF Atoi(str).ok THEN IntV(Atoi(str).n)
  ELSE IF WholeFloat(str).ok THEN FloatV(WholeFloat(str).m, WholeFloat(str).e)
  ELSE StrV(str)

\* the property map stored under a wire name
PropertyOf(schema, wireName) ==
  LET i == CHOOSE i \in 1..Len(schema.Properties) : schema.Properties[i].key = wireName
  IN schema.Properties[i].val

\* C15 as stated: for a token minimum=, maximum=, minLength= or maxLength=
\* the stored constraint is the integer when the whole value text is an
\* integer, else the float when the whole text is a float ("3.5" is stored
\* as 3.5), else the text verbatim ("12abc" is stored as "12abc"); the key
\* is never dropped.
C15_LimitValueByWholeText ==
  \A n \in ToolNames :
    tools[n] # <<>> =>
      LET fields == StructFields(BaseStruct(tools[n][1].argsType))
      IN \A i \in 1..Len(fields) :
           InSchema(fields[i]) =>
             \A part \in BareTokens(fields[i].jsonschema), key \in LimitKeys :
               HasPrefix(part, key \o "=") =>
                 PropertyOf(SchemaAt(n), WireName(fields[i]))[key]
                   = <<WholeNumber(TrimPrefix(part, key \o "="))>>

(***************************************************************************)
(* Properties of the course of one call (SpecPipeline)                     *)
(***************************************************************************)
\* the stage changes a call may make
StageOrder ==
  { <<"IDLE", "RECEIVED">>,
    <<"RECEIVED", "DECODED">>, <<"RECEIVED", "DECODE_FAILED">>,
    <<"DECODED", "VALID">>, <<"DECODED", "VALIDATION_FAILED">>,
    <<"VALID", "INVOKED">>, <<"VALID", "HANDLER_FAILED">>,
    <<"INVOKED", "DONE">>, <<"INVOKED", "ENCODE_FAILED">> }
  \cup {<<pc, "IDLE">> : pc \in Terminal}

\* a step of a call moves it one stage on; only the step out of VALID runs
\* the handler, and a failed call runs nothing more
LinearStep ==
  \A c \in CallIds :
    calls'[c] # calls[c] =>
      /\ <<calls[c].pc, calls'[c].pc>> \in StageOrder
      /\ calls'[c].pc # "IDLE" =>
           calls'[c].handlerCalls =
             calls[c].handlerCalls + (IF calls[c].pc = "VALID" THEN 1 ELSE 0)

\* the handler has run once in the stages past it and never elsewhere
HandlerAtMostOnce ==
  \A c \in CallIds :
    calls[c].handlerCalls =
      IF calls[c].pc \in {"INVOKED", "DONE", "HANDLER_FAILED", "ENCODE_FAILED"}
      THEN 1 ELSE 0

\* C16: a call is one linear run without retries: its stages come in the
\* order decode, validate, invoke, encode, the handler is called at most
\* once, nothing runs after a failure, and, the handler returning, the call
\* ends in one of the five terminal outcomes.
C16_LinearPipeline ==
  /\ [][LinearStep]_vars
  /\ [] HandlerAtMostOnce
  /\ \A c \in CallIds : (calls[c].pc = "RECEIVED") ~> (calls[c].pc \in Terminal)

\* one call that failed after its handler ran once, one that failed before
C16_Witness ==
  \E c, d \in CallIds :
    /\ calls[c].pc = "ENCODE_FAILED" /\ calls[c].handlerCalls = 1
    /\ calls[d].pc = "DECODE_FAILED" /\ calls[d].handlerCalls = 0

(***************************************************************************)
(* Properties of what gates the handler (SpecServer)                       *)
(***************************************************************************)
MemberKeys(request) == {request.members[i].key : i \in 1..Len(request.members)}

\* the constraints of the schema that the request's arguments do not meet:
\* a required name without member, a number outside minimum and maximum, a
\* text that is not in the enumeration
SchemaViolations(schema, request) ==
  LET names   == {schema.Properties[i].key : i \in 1..Len(schema.Properties)}
      members == {request.members[i] : i \in 1..Len(request.members)}
      known   == {m \in members : m.key \in names}
  IN {<<"required", schema.Required[i]>> :
        i \in {j \in 1..Len(schema.Required) : schema.Required[j] \notin MemberKeys(request)}}
     \cup {<<"minimum", m.key>> :
             m \in {k \in known : /\ k.val.k = "int"
                                  /\ PropertyOf(schema, k.key)["minimum"] # <<>>
                                  /\ k.val.i < PropertyOf(schema, k.key)["minimum"][1].i}}
     \cup {<<"maximum", m.key>> :
             m \in {k \in known : /\ k.val.k = "int"
                                  /\ PropertyOf(schema, k.key)["maximum"] # <<>>
                                  /\ k.val.i > PropertyOf(schema, k.key)["maximum"][1].i}}
     \cup {<<"enum", m.key>> :
             m \in {k \in known : /\ k.val.k = "string"
                                  /\ PropertyOf(schema, k.key)["enum"] # <<>>
                                  /\ ~contains(PropertyOf(schema, k.key)["enum"][1].l,
                                               k.val.s)}}

\* for each tool's argument type and each request, what the schema rejects
SchemaViolationsOf ==
  [t \in ServerArgs |->
     [r \in ScenarioRequests \cup GreetRequests |->
        SchemaViolations(SchemaOf[t].schema[1], r)]]

\* what the schema of the call's tool rejects in the call's request
SchemaRejects(c) == SchemaViolationsOf[calls[c].argsType][calls[c].request]

\* the call's arguments were decoded and its validation has been decided
Gated(c) ==
  calls[c].pc \in {"VALID", "INVOKED", "DONE", "VALIDATION_FAILED", "HANDLER_FAILED",
                   "ENCODE_FAILED"}

\* C17: only the validation rules gate the handler.  A call whose decoded
\* arguments violate no rule passes validation and, at its end, has run the
\* handler, whatever constraints of the schema its arguments violate; a
\* call whose arguments violate a rule ends in a validation failure without
\* the handler, even when they meet every constraint of the schema.
C17_OnlyRulesGate ==
  \A c \in CallIds :
    Gated(c) =>
      /\ Offending(c) = {} =>
           /\ calls[c].pc # "VALIDATION_FAILED"
           /\ calls[c].pc \in Terminal => calls[c].handlerCalls = 1
      /\ Offending(c) # {} =>
           /\ calls[c].pc = "VALIDATION_FAILED"
           /\ calls[c].handlerCalls = 0
           /\ calls[c].result[1].IsError

\* age missing although the schema requires it, and the handler has run;
\* name "Al" with every schema constraint met, and the call is rejected
C17_Witness ==
  \E c, d \in CallIds :
    /\ calls[c].pc = "DONE"
    /\ <<"required", "age">> \in SchemaRejects(c)
    /\ calls[c].handlerCalls = 1
    /\ calls[d].pc = "VALIDATION_FAILED"
    /\ SchemaRejects(d) = {}
    /\ calls[d].violations = <<[Field |-> "Name", Message |-> "must be at least 3"]>>
====
